---- MODULE Spec2Model ----
(***************************************************************************)
(* Model of langkit/utils.py: the generator topological_sort and the       *)
(* class TypeSet (include, unmatched_types).                               *)
(***************************************************************************)
EXTENDS Integers, Sequences, FiniteSets, TLC

\* Bounds of the model.
NumItems == 2   \* the items are 1..NumItems
MaxLen == 2     \* longest input sequence given to topological_sort
MaxNodes == 5   \* largest class hierarchy handed to a TypeSet

VARIABLES
    \* ---- topological_sort(items) ----
    input,            \* the pairs the caller's iterable delivers, in order
    items,            \* the local "items": [gen |-> TRUE for a generator object and FALSE
                      \* for a list, pairs |-> the pairs it delivers, in order]
    provided,         \* the local set "provided"
    remaining_items,  \* the local list "remaining_items"
    emitted,          \* the local flag "emitted"
    idx,              \* position of the for loop in items (1-based)
    out,              \* the sequence of items yielded so far
    pc,               \* "idle", "while", "for", "done", "failed"
    raised,           \* the exception that left the generator, or NoException
    passes,           \* number of passes of the while loop started so far
    origin,           \* origin[k]: position in input of the pair items.pairs[k]
    remaining_origin, \* the same for the pairs of remaining_items
    yields,           \* for each element of out, the position in input of its pair
                      \* and the pass that yielded it
    \* ---- TypeSet ----
    parent,           \* the class hierarchy: parent[t] is the base class of t, 0 for the root
    matched_types,    \* TypeSet.matched_types
    arg,              \* argument of the last include call (0: none yet)
    ret,              \* return value of the last include call ("none": no call yet)
    included          \* the types passed to include so far by the caller

sortVars == <<input, items, provided, remaining_items, emitted, idx, out, pc, raised,
              passes, origin, remaining_origin, yields>>
typeSetVars == <<parent, matched_types, arg, ret, included>>
vars == <<input, items, provided, remaining_items, emitted, idx, out, pc, raised,
          passes, origin, remaining_origin, yields,
          parent, matched_types, arg, ret, included>>

Range(s) == {s[k] : k \in 1..Len(s)}

(***************************************************************************)
(* topological_sort                                                        *)
(***************************************************************************)
Items == 1..NumItems

\* An (item, dependencies) pair of the input.
Pairs == Items \X (SUBSET Items)

Inputs == UNION {[1..k -> Pairs] : k \in 0..MaxLen}

NoException == [type |-> "none", args |-> <<>>]

\* "assert(emitted)": an AssertionError without a message.
AssertionError == [type |-> "AssertionError", args |-> <<>>]

\* Variant of Truthy that takes a generator for the list of its pairs.
TruthyAsList(it) == Len(it.pairs) > 0

\* bool(items) of "while items": a generator object is always true, a list is
\* true when it is not empty.
Truthy(it) == it.gen \/ Len(it.pairs) > 0

\* Variants of the readiness test: "dependencies.issuperset(provided)", and a
\* test that is satisfied by one provided dependency.
IsSupersetSwapped(prov, dependencies) == prov \subseteq dependencies
IsSupersetAny(prov, dependencies) == dependencies = {} \/ dependencies \cap prov # {}

\* provided.issuperset(dependencies)
IsSuperset(prov, dependencies) == dependencies \subseteq prov

\* No TypeSet is in use.
TypeSetIdle ==
    /\ parent = <<>>
    /\ matched_types = {}
    /\ arg = 0
    /\ ret = "none"
    /\ included = {}

\* topological_sort has not been called.
SortIdle ==
    /\ input = <<>>
    /\ items = [gen |-> FALSE, pairs |-> <<>>]
    /\ provided = {}
    /\ remaining_items = <<>>
    /\ emitted = FALSE
    /\ idx = 0
    /\ out = <<>>
    /\ pc = "idle"
    /\ raised = NoException
    /\ passes = 0
    /\ origin = <<>>
    /\ remaining_origin = <<>>
    /\ yields = <<>>

\* The generator has been created on some input and has not run yet.
SortInit ==
    /\ input \in Inputs
    /\ \E gen \in BOOLEAN : items = [gen |-> gen, pairs |-> input]
    /\ provided = {}
    /\ remaining_items = <<>>
    /\ emitted = FALSE
    /\ idx = 0
    /\ out = <<>>
    /\ pc = "while"
    /\ raised = NoException
    /\ passes = 0
    /\ origin = [k \in DOMAIN input |-> k]
    /\ remaining_origin = <<>>
    /\ yields = <<>>
    /\ TypeSetIdle

\* "while items:" is true: start a pass.
WhileEnter ==
    /\ pc = "while"
    /\ Truthy(items)
    /\ remaining_items' = <<>>
    /\ emitted' = FALSE
    /\ idx' = 1
    /\ pc' = "for"
    /\ passes' = IF passes <= MaxLen THEN passes + 1 ELSE passes
    /\ remaining_origin' = <<>>
    /\ UNCHANGED <<input, items, provided, out, raised, origin, yields>>
    /\ UNCHANGED typeSetVars

\* "while items:" is false: the generator returns.
WhileExit ==
    /\ pc = "while"
    /\ ~Truthy(items)
    /\ pc' = "done"
    /\ UNCHANGED <<input, items, provided, remaining_items, emitted, idx, out, raised>>
    /\ UNCHANGED <<passes, origin, remaining_origin, yields>>
    /\ UNCHANGED typeSetVars

\* Variant of ForEmit without "provided.add(item)".
ForEmitForgetsProvided ==
    /\ pc = "for"
    /\ idx <= Len(items.pairs)
    /\ IsSuperset(provided, items.pairs[idx][2])
    /\ out' = Append(out, items.pairs[idx][1])
    /\ emitted' = TRUE
    /\ idx' = idx + 1
    /\ yields' = Append(yields, [pos |-> origin[idx], pass |-> passes])
    /\ UNCHANGED <<input, items, provided, remaining_items, pc, raised>>
    /\ UNCHANGED <<passes, origin, remaining_origin>>
    /\ UNCHANGED typeSetVars

\* One iteration of the for loop whose pair is ready: yield the item.
ForEmit ==
    /\ pc = "for"
    /\ idx <= Len(items.pairs)
    /\ LET item == items.pairs[idx][1]
           dependencies == items.pairs[idx][2]
       IN /\ IsSuperset(provided, dependencies)
          /\ out' = Append(out, item)
          /\ provided' = provided \cup {item}
    /\ emitted' = TRUE
    /\ idx' = idx + 1
    /\ yields' = Append(yields, [pos |-> origin[idx], pass |-> passes])
    /\ UNCHANGED <<input, items, remaining_items, pc, raised>>
    /\ UNCHANGED <<passes, origin, remaining_origin>>
    /\ UNCHANGED typeSetVars

\* Variant of ForDefer that forgets the pair instead of keeping it.
ForDeferDrops ==
    /\ pc = "for"
    /\ idx <= Len(items.pairs)
    /\ ~IsSuperset(provided, items.pairs[idx][2])
    /\ idx' = idx + 1
    /\ UNCHANGED <<input, items, provided, remaining_items, emitted, out, pc, raised>>
    /\ UNCHANGED <<passes, origin, remaining_origin, yields>>
    /\ UNCHANGED typeSetVars

\* One iteration of the for loop whose pair is not ready: keep it for the next pass.
ForDefer ==
    /\ pc = "for"
    /\ idx <= Len(items.pairs)
    /\ LET item == items.pairs[idx][1]
           dependencies == items.pairs[idx][2]
       IN /\ ~IsSuperset(provided, dependencies)
          /\ remaining_items' = Append(remaining_items, <<item, dependencies>>)
    /\ idx' = idx + 1
    /\ remaining_origin' = Append(remaining_origin, origin[idx])
    /\ UNCHANGED <<input, items, provided, emitted, out, pc, raised>>
    /\ UNCHANGED <<passes, origin, yields>>
    /\ UNCHANGED typeSetVars

\* The for loop is over and the assertion holds: "items = remaining_items".
PassEnd ==
    /\ pc = "for"
    /\ idx > Len(items.pairs)
    /\ emitted
    /\ items' = [gen |-> FALSE, pairs |-> remaining_items]
    /\ pc' = "while"
    /\ origin' = remaining_origin
    /\ UNCHANGED <<input, provided, remaining_items, emitted, idx, out, raised>>
    /\ UNCHANGED <<passes, remaining_origin, yields>>
    /\ UNCHANGED typeSetVars

\* Variant of AssertFail without the assertion: the loop goes on.
AssertIgnored ==
    /\ pc = "for"
    /\ idx > Len(items.pairs)
    /\ ~emitted
    /\ items' = [gen |-> FALSE, pairs |-> remaining_items]
    /\ pc' = "while"
    /\ origin' = remaining_origin
    /\ UNCHANGED <<input, provided, remaining_items, emitted, idx, out, raised>>
    /\ UNCHANGED <<passes, remaining_origin, yields>>
    /\ UNCHANGED typeSetVars

\* The for loop is over and "assert(emitted)" fails.
AssertFail ==
    /\ pc = "for"
    /\ idx > Len(items.pairs)
    /\ ~emitted
    /\ raised' = AssertionError
    /\ pc' = "failed"
    /\ UNCHANGED <<input, items, provided, remaining_items, emitted, idx, out>>
    /\ UNCHANGED <<passes, origin, remaining_origin, yields>>
    /\ UNCHANGED typeSetVars

(***************************************************************************)
(* TypeSet                                                                 *)
(***************************************************************************)
\* The class hierarchies: type 1 is the root, every other type derives from a
\* type declared before it.
Hierarchies ==
    UNION {{p \in [1..n -> 0..(n - 1)] : p[1] = 0 /\ \A t \in 2..n : p[t] \in 1..(t - 1)}
           : n \in 1..MaxNodes}

Types == DOMAIN parent

\* t.subclasses: the types that derive directly from t.
Subclasses(t) == {c \in Types : parent[c] = t}

\* t.get_inheritance_chain(): the base classes of t from the root down to t itself.
RECURSIVE GetInheritanceChain(_)
GetInheritanceChain(t) ==
    IF parent[t] = 0 THEN <<t>> ELSE Append(GetInheritanceChain(parent[t]), t)

\* The elements of a set of types in declaration order.
RECURSIVE InOrder(_)
InOrder(S) ==
    IF S = {} THEN <<>>
    ELSE LET first == CHOOSE x \in S : \A y \in S : x <= y
         IN <<first>> \o InOrder(S \ {first})

Reversed(s) == [k \in 1..Len(s) |-> s[Len(s) + 1 - k]]

\* Variants of IncludeParents: one that stops after the direct base class, and
\* one that includes no base class at all.
IncludeParentsOnce(matched, parents) ==
    IF parents = <<>> THEN matched
    ELSE LET p == Head(parents)
         IN IF p \in matched THEN matched
            ELSE IF ~(Subclasses(p) \subseteq matched) THEN matched
            ELSE matched \cup {p}
IncludeParentsNone(matched, parents) == matched

\* "for parent in reversed(parents)": the loop that includes the base classes
\* whose subclasses are all matched. Returns matched_types after the loop.
RECURSIVE IncludeParents(_, _)
IncludeParents(matched, parents) ==
    IF parents = <<>> THEN matched
    ELSE LET p == Head(parents)
         IN IF p \in matched THEN matched
            ELSE IF ~(Subclasses(p) \subseteq matched) THEN matched
            ELSE IncludeParents(matched \cup {p}, Tail(parents))

\* Variant of IncludeSubclasses that does not visit the subclasses.
IncludeSubclassesNone(matched, children) == matched

\* The effect of TypeSet.include(t) on a matched_types set: the set after the
\* call. IncludeSubclasses is the loop "for child in t.subclasses".
RECURSIVE Include(_, _)
RECURSIVE IncludeSubclasses(_, _)
IncludeSubclasses(matched, children) ==
    IF children = <<>> THEN matched
    ELSE IncludeSubclasses(Include(matched, Head(children)), Tail(children))

Include(matched, t) ==
    IF t \in matched THEN matched
    ELSE LET withSubclasses == IncludeSubclasses(matched \cup {t}, InOrder(Subclasses(t)))
             chain == GetInheritanceChain(t)
             parents == SubSeq(chain, 1, Len(chain) - 1)
         IN IncludeParents(withSubclasses, Reversed(parents))

\* Variant of IncludeReturn that tells whether t was newly added.
IncludeReturnNew(matched, t) == t \notin matched

\* The value TypeSet.include(t) returns: True on the early return, False at the end.
IncludeReturn(matched, t) == IF t \in matched THEN TRUE ELSE FALSE

\* Variant of UnmatchedTypes whose result starts as {t} when it visits the
\* subclasses.
RECURSIVE UnmatchedTypesKeepsBase(_)
UnmatchedTypesKeepsBase(t) ==
    IF t \in matched_types THEN {}
    ELSE LET subclasses == Subclasses(t)
         IN IF subclasses \cap matched_types # {}
            THEN {t} \cup UNION {UnmatchedTypesKeepsBase(cls) : cls \in subclasses}
            ELSE {t}

\* TypeSet.unmatched_types(t) on the current matched_types.
RECURSIVE UnmatchedTypes(_)
UnmatchedTypes(t) ==
    IF t \in matched_types THEN {}
    ELSE LET subclasses == Subclasses(t)
         IN IF subclasses \cap matched_types # {}
            THEN UNION {UnmatchedTypes(cls) : cls \in subclasses}
            ELSE {t}

\* TypeSet(): a fresh set for some class hierarchy.
TypeSetInit ==
    /\ parent \in Hierarchies
    /\ matched_types = {}
    /\ arg = 0
    /\ ret = "none"
    /\ included = {}
    /\ SortIdle

\* A call self.include(t) by the user of the TypeSet.
IncludeCall ==
    \E t \in Types :
        /\ matched_types' = Include(matched_types, t)
        /\ ret' = IncludeReturn(matched_types, t)
        /\ arg' = t
        /\ included' = included \cup {t}
        /\ UNCHANGED parent
        /\ UNCHANGED sortVars

SortNext == WhileEnter \/ WhileExit \/ ForEmit \/ ForDefer \/ PassEnd \/ AssertFail

SortSpec == SortInit /\ [][SortNext]_vars

TypeSetNext == IncludeCall

TypeSetSpec == TypeSetInit /\ [][TypeSetNext]_vars

\* The run is driven to its end: the consumer iterates the generator until it
\* returns or raises.
FairSortSpec == SortSpec /\ WF_vars(SortNext)

(***************************************************************************)
(* Properties of topological_sort                                          *)
(***************************************************************************)
\* The dependency graph of an input: its items, and the dependencies of an item
\* (those of all the pairs that supply it).
Supplied(inp) == {inp[k][1] : k \in DOMAIN inp}
DepsOf(inp, x) == UNION {inp[k][2] : k \in {j \in DOMAIN inp : inp[j][1] = x}}

RECURSIVE Closure(_, _, _)
Closure(inp, S, n) ==
    IF n = 0 THEN S
    ELSE Closure(inp, S \cup UNION {DepsOf(inp, y) : y \in S}, n - 1)

HasSelfEdge(inp) == \E k \in DOMAIN inp : inp[k][1] \in inp[k][2]
HasCycle(inp) == \E x \in Supplied(inp) : x \in Closure(inp, DepsOf(inp, x), NumItems)
HasDangling(inp) == \E k \in DOMAIN inp : ~(inp[k][2] \subseteq Supplied(inp))
DistinctItems(inp) == \A j, k \in DOMAIN inp : inp[j][1] = inp[k][1] => j = k
Malformed(inp) == HasSelfEdge(inp) \/ HasCycle(inp) \/ HasDangling(inp)

\* Number of occurrences of x in the sequence s.
Count(s, x) == Cardinality({k \in DOMAIN s : s[k] = x})
InputItems == [k \in DOMAIN input |-> input[k][1]]
IsPermutation(s, t) == Len(s) = Len(t) /\ \A x \in Range(s) \cup Range(t) : Count(s, x) = Count(t, x)

\* The generator has not run yet.
Fresh == pc = "while" /\ idx = 0

\* C1: whenever topological_sort yields an item, every element of the dependency
\* set of the pair being processed already occurs in the output sequence.
C1_DepsEmittedFirst ==
    [][Len(out') > Len(out) => items.pairs[idx][2] \subseteq Range(out)]_vars

\* A run that completed after yielding an item that has dependencies.
C1_Witness ==
    /\ pc = "done"
    /\ Len(out) >= 2
    /\ \E k \in DOMAIN input : input[k][2] # {}

\* C2 as stated: an input with a self-edge, a cycle or a dangling dependency
\* never makes the generator return normally.
C2_MalformedNeverCompletes == Malformed(input) => pc # "done"

\* C2 amended: when no item is supplied by more than one pair, an input with a
\* self-edge, a cycle or a dangling dependency ends in the failed assertion.
C2_DistinctMalformedFails == (Fresh /\ DistinctItems(input) /\ Malformed(input)) ~> (pc = "failed")

\* A failed run on an input of distinct items that has a cycle of two items.
C2_Witness ==
    /\ pc = "failed"
    /\ DistinctItems(input)
    /\ \E j, k \in DOMAIN input : j # k /\ input[j][1] \in input[k][2] /\ input[k][1] \in input[j][2]

\* C3 as stated: an acyclic input whose dependencies are all supplied never
\* fails, and the output of the completed run is a permutation of its items.
C3_DagNeverFails ==
    (~HasCycle(input) /\ ~HasDangling(input))
        => (pc # "failed" /\ (pc = "done" => IsPermutation(out, InputItems)))

\* C3 amended: an acyclic input whose dependencies are all supplied, other than a
\* generator that yields no pair, makes the run return normally with an output
\* that is a permutation of the input items.
C3_DagCompletes ==
    (Fresh /\ ~HasCycle(input) /\ ~HasDangling(input) /\ ~(items.gen /\ input = <<>>))
        ~> (pc = "done" /\ IsPermutation(out, InputItems))

\* A completed run that needed more than one pass.
C3_Witness ==
    /\ pc = "done"
    /\ Len(out) = MaxLen
    /\ out # InputItems

\* C4 as stated: a failed run has yielded nothing.
C4_FailureEmitsNothing == pc = "failed" => out = <<>>

\* C4 amended: a failed run has yielded nothing exactly when no input pair has an
\* empty dependency set; otherwise the items of the earlier passes were yielded
\* before the failure.
C4_FailureEmitsNothingIffNoneReady ==
    pc = "failed" => (out = <<>> <=> \A k \in DOMAIN input : input[k][2] # {})

\* A failed run that had yielded an item.
C4_Witness == pc = "failed" /\ out # <<>>

\* C5: the exception of a failed run carries the set of items still pending.
C5_FailureCarriesPending ==
    pc = "failed" => raised.args = <<{remaining_items[k][1] : k \in DOMAIN remaining_items}>>

\* C11: an empty list given to topological_sort makes it return after no pass,
\* with an empty output and no failure; a generator that yields no pair makes it
\* fail the assertion of its first pass.
C11_EmptyListVersusEmptyGenerator ==
    /\ (Fresh /\ input = <<>> /\ ~items.gen)
           ~> (pc = "done" /\ out = <<>> /\ passes = 0 /\ raised = NoException)
    /\ (Fresh /\ input = <<>> /\ items.gen)
           ~> (pc = "failed" /\ out = <<>> /\ passes = 1 /\ raised = AssertionError)

\* The run on a generator that yields no pair has failed.
C11_Witness == pc = "failed" /\ input = <<>> /\ items.gen /\ passes = 1

\* The input lists every item after all of its dependencies.
DependenciesFirst(inp) ==
    \A k \in DOMAIN inp : inp[k][2] \subseteq {inp[j][1] : j \in 1..(k - 1)}

\* The items yielded before the current pass reached the input pair at position q.
YieldedBefore(q) ==
    {out[a] : a \in {b \in DOMAIN yields : yields[b].pass < passes \/ yields[b].pos < q}}

\* C13: the items yielded in one pass come in the order of their pairs in the
\* input; a pair kept for the next pass had a dependency that was not yielded
\* when the pass reached it; and when the input lists every item after all of
\* its dependencies, no second pass is started and the output of the finished
\* run is the sequence of the input items.
C13_InputOrderPreserved ==
    /\ Len(yields) = Len(out)
    /\ \A a \in DOMAIN yields : out[a] = input[yields[a].pos][1]
    /\ \A a, b \in DOMAIN yields :
           (a < b /\ yields[a].pass = yields[b].pass) => yields[a].pos < yields[b].pos
    /\ \A k \in DOMAIN remaining_origin :
           ~(input[remaining_origin[k]][2] \subseteq YieldedBefore(remaining_origin[k]))
    /\ DependenciesFirst(input)
           => (passes <= 1 /\ (pc \in {"done", "failed"} => out = InputItems))

\* A finished run on an input of full length that lists a dependent item after
\* its dependency.
C13_Witness ==
    /\ pc = "done"
    /\ DependenciesFirst(input)
    /\ Len(input) = MaxLen
    /\ \E k \in DOMAIN input : input[k][2] # {}
    /\ passes = 1

(***************************************************************************)
(* Properties of TypeSet                                                   *)
(***************************************************************************)
\* The types that derive from t, directly or not.
Descendants(t) == {d \in Types \ {t} : t \in Range(GetInheritanceChain(d))}

\* C6: between include calls, every type that has subclasses, all of them in
\* matched_types, is in matched_types itself, and unmatched_types of it is empty.
C6_ParentOfMatchedIsMatched ==
    \A p \in Types :
        (Subclasses(p) # {} /\ Subclasses(p) \subseteq matched_types)
            => (p \in matched_types /\ UnmatchedTypes(p) = {})

\* A type with several subclasses, each passed to include, is matched although
\* neither it nor any of its base classes was passed to include.
C6_Witness ==
    \E p \in Types :
        /\ Cardinality(Subclasses(p)) >= 2
        /\ Subclasses(p) \subseteq included
        /\ Range(GetInheritanceChain(p)) \cap included = {}
        /\ p \in matched_types

\* C7: between include calls, matched_types contains every descendant of each of
\* its elements; once the root was passed to include, every type is matched and
\* unmatched_types(root) is empty.
C7_DownwardClosed ==
    /\ \A t \in matched_types : Descendants(t) \subseteq matched_types
    /\ 1 \in included => (matched_types = Types /\ UnmatchedTypes(1) = {})

\* The root was included after other types, and it was not matched before.
C7_Witness ==
    /\ Len(parent) >= 3
    /\ arg = 1
    /\ ret = FALSE
    /\ Cardinality(included) >= 2

\* C8: between include calls, unmatched_types(n) is empty exactly when n is in
\* matched_types.
C8_EmptyIffMatched ==
    \A n \in Types : (UnmatchedTypes(n) = {}) <=> (n \in matched_types)

\* An unmatched type with a matched subclass: the query descends into its subclasses.
C8_Witness ==
    \E n \in Types : n \notin matched_types /\ Subclasses(n) \cap matched_types # {}

\* C9: between include calls, no type returned by unmatched_types has a
\* descendant in matched_types.
C9_NoCoverageBelowUnmatched ==
    \A n \in Types : \A x \in UnmatchedTypes(n) : Descendants(x) \cap matched_types = {}

\* C10: an include call returns whether its argument was in matched_types before
\* the call; if it was, matched_types is unchanged, if not, the argument is in
\* matched_types afterwards; a call that repeats the previous call's argument
\* returns true and changes nothing.
C10_IncludeReturn ==
    [][/\ ret' = (arg' \in matched_types)
       /\ arg' \in matched_types => matched_types' = matched_types
       /\ arg' \notin matched_types => arg' \in matched_types'
       /\ arg' = arg => (ret' = TRUE /\ matched_types' = matched_types)]_vars

\* An include call that found its argument, passed to include before, already matched.
C10_Witness == arg # 0 /\ ret = TRUE /\ matched_types # Types

\* A type and the types that derive from it; the types without subclasses.
Subtree(t) == {t} \cup Descendants(t)
Leaves == {t \in Types : Subclasses(t) = {}}

\* C12: between include calls, for every type n, unmatched_types(n) holds only
\* unmatched types of the subtree of n, every unmatched leaf of that subtree is
\* in the subtree of exactly one type of the result, and when n is unmatched,
\* its subclasses are all leaves and one of them is matched, the result is the
\* set of the unmatched subclasses of n.
C12_UnmatchedTypesPartition ==
    \A n \in Types :
        LET result == UnmatchedTypes(n)
        IN /\ result \subseteq Subtree(n) \ matched_types
           /\ \A leaf \in (Subtree(n) \cap Leaves) \ matched_types :
                  Cardinality({x \in result : leaf \in Subtree(x)}) = 1
           /\ (/\ n \notin matched_types
               /\ Subclasses(n) \subseteq Leaves
               /\ Subclasses(n) \cap matched_types # {})
                  => result = Subclasses(n) \ matched_types

\* A type with three leaf subclasses of which exactly one is matched.
C12_Witness ==
    \E n \in Types :
        /\ Subclasses(n) \subseteq Leaves
        /\ Cardinality(Subclasses(n) \cap matched_types) = 1
        /\ Cardinality(Subclasses(n) \ matched_types) = 2

====
